---- MODULE Spec2Model ----
(***************************************************************************)
(* Model of the forecast Lambda (src/Lambda/RQ3/lambda_function.py):       *)
(* SimpleLinearTimeModel, lambda_handler, _create_prediction_table and     *)
(* _insert_timeseries, together with the relational store they talk to.    *)
(*                                                                         *)
(* Numbers.  Python floats are carried as fixed-point integers in units of *)
(* 1/Q (50.0 is 50 * Q).  Products and quotients are rounded down to that  *)
(* resolution (FMul, FDiv); float rounding itself is not modelled.         *)
(*                                                                         *)
(* Time.  A timestamp is a number of ticks, TicksPerDay ticks to a day;    *)
(* a calendar date is a day number.  `.dt.date` / `.date()` truncate a     *)
(* timestamp to its day, pd.to_datetime(date) is midnight of that day.     *)
(*                                                                         *)
(* Store.  Every connection runs in PostgreSQL's default READ COMMITTED    *)
(* mode with psycopg2's implicit transactions: rows inserted by an         *)
(* invocation sit in pending[p] until conn.commit() appends them to the    *)
(* table; a SELECT sees the committed rows and the invocation's own        *)
(* pending ones.  Every store call has an alternative in which it raises.  *)
(***************************************************************************)
EXTENDS Integers, Sequences, FiniteSets, TLC

\* ------------------------------------------------------------------
\* Bounds of the model
\* ------------------------------------------------------------------
MaxDay == 6          \* the tables hold readings of days 1..MaxDay
TicksPerDay == 2     \* timestamps per calendar day
TrainEpochs == 1     \* SGD steps the model runs for the handler's epochs=4000
MaxCalls == 2        \* invocations (or direct sink calls) per behaviour
NProcs == 2          \* invocations that may exist at once
MaxBatch == 2        \* longest batch handed to a direct sink call
MaxReadings == 3     \* most readings in a table of the Feature Builder inputs

Procs == 1..NProcs

\* ------------------------------------------------------------------
\* Numbers and time
\* ------------------------------------------------------------------
Q == 1000

FMul(a, b) == (a * b) \div Q

FDiv(a, b) == (a * Q) \div b

Max(a, b) == IF a >= b THEN a ELSE b

Min(a, b) == IF a <= b THEN a ELSE b

\* pd.to_datetime(<date>): midnight of the day
to_datetime(d) == d * TicksPerDay

\* Timestamp.date() / Series.dt.date: the calendar day of a timestamp
DateOf(ts) == ts \div TicksPerDay

\* timedelta(days=i)
timedelta(i) == i * TicksPerDay

\* NOW() / pd.Timestamp.now(): the invocations run after the last reading
Now == to_datetime(MaxDay + 1) + 1

WindowDays == 90

RECURSIVE SumSeq(_)
SumSeq(s) == IF s = <<>> THEN 0 ELSE Head(s) + SumSeq(Tail(s))

\* sum(xs) / len(xs)
Mean(s) == SumSeq(s) \div Len(s)

RECURSIVE SortedSeq(_)
\* the elements of a finite set of integers in ascending order
SortedSeq(S) ==
    IF S = {} THEN <<>>
    ELSE LET m == CHOOSE x \in S : \A y \in S : x <= y
         IN <<m>> \o SortedSeq(S \ {m})

RECURSIVE InsertByKey(_, _)
\* insert the pair <<key, row>> after the pairs whose key is not larger
InsertByKey(s, r) ==
    IF s = <<>> THEN <<r>>
    ELSE IF r[1] < Head(s)[1] THEN <<r>> \o s
    ELSE <<Head(s)>> \o InsertByKey(Tail(s), r)

RECURSIVE SortPairs(_)
SortPairs(s) ==
    IF s = <<>> THEN <<>>
    ELSE InsertByKey(SortPairs(SubSeq(s, 1, Len(s) - 1)), s[Len(s)])

\* ORDER BY <key> / DataFrame.sort_values(<key>): a stable sort of the rows
\* s by their keys, keys[i] being the key of s[i]
OrderBy(s, keys) ==
    LET sorted == SortPairs([i \in 1..Len(s) |-> <<keys[i], s[i]>>])
    IN [i \in 1..Len(s) |-> sorted[i][2]]

\* Series.max()
MaxOf(S) == CHOOSE x \in S : \A y \in S : y <= x

\* ------------------------------------------------------------------
\* SimpleLinearTimeModel
\* ------------------------------------------------------------------
\* __init__: self.w = [0.0, 0.5, 0.5]
InitW == <<0, Q \div 2, Q \div 2>>

\* lr=0.001
DefaultLr == Q \div 1000

predict_one(w, aqi_t, fire_t) == w[1] + FMul(w[2], aqi_t) + FMul(w[3], fire_t)

\* one iteration of the loop of sgd_train on sample i
SgdStep(w, lr, a, f, y) ==
    LET pred == predict_one(w, a, f)
        errv == pred - y
        grad_w0 == 2 * errv
        grad_w1 == FMul(2 * errv, a)
        grad_w2 == FMul(2 * errv, f)
    IN <<w[1] - FMul(lr, grad_w0), w[2] - FMul(lr, grad_w1), w[3] - FMul(lr, grad_w2)>>

RECURSIVE SgdLoop(_, _, _, _, _, _)
SgdLoop(w, lr, x_aqi, x_fire, y_next, picks) ==
    IF picks = <<>> THEN w
    ELSE LET i == Head(picks)
         IN SgdLoop(SgdStep(w, lr, x_aqi[i], x_fire[i], y_next[i]),
                    lr, x_aqi, x_fire, y_next, Tail(picks))

\* variant: an empty sample set resets the weights to the prior
sgd_train_reset(w, lr, x_aqi, x_fire, y_next, picks) ==
    LET n == Len(y_next)
    IN IF n = 0 THEN InitW
       ELSE SgdLoop(w, lr, x_aqi, x_fire, y_next, picks)

\* sgd_train: picks are the draws of random.randrange(n), one per epoch
sgd_train(w, lr, x_aqi, x_fire, y_next, picks) ==
    LET n == Len(y_next)
    IN IF n = 0 THEN w
       ELSE SgdLoop(w, lr, x_aqi, x_fire, y_next, picks)

\* ------------------------------------------------------------------
\* Feature Builder (lambda_handler, step 4)
\* ------------------------------------------------------------------
\* WHERE <ts> >= NOW() - INTERVAL '90 days' ORDER BY <ts>
Query(table) ==
    LET rows == SelectSeq(table, LAMBDA r : r.ts >= Now - timedelta(WindowDays))
    IN OrderBy(rows, [i \in 1..Len(rows) |-> rows[i].ts])

\* df.groupby('date')[col].mean().reset_index(): one row per distinct day,
\* days ascending, the value the mean of that day's readings
GroupMean(rows) ==
    LET days == SortedSeq({DateOf(rows[i].ts) : i \in DOMAIN rows})
        ofDay(d) == SelectSeq(rows, LAMBDA r : DateOf(r.ts) = d)
    IN [j \in 1..Len(days) |->
          [date |-> days[j],
           val  |-> Mean([i \in 1..Len(ofDay(days[j])) |-> ofDay(days[j])[i].val])]]

\* variant: how='inner', days without a fire reading are dropped
MergeInner(aqi_daily, fire_daily) ==
    LET fireOf(d) == fire_daily[CHOOSE j \in DOMAIN fire_daily : fire_daily[j].date = d].val
        both == SelectSeq(aqi_daily,
                          LAMBDA r : \E j \in DOMAIN fire_daily : fire_daily[j].date = r.date)
    IN [i \in 1..Len(both) |->
          [date |-> both[i].date, aqi |-> both[i].val, fire_intensity |-> fireOf(both[i].date)]]

\* pd.merge(aqi_daily, fire_daily, on='date', how='left'), fillna(0.0),
\* sort_values('date'), reset_index
Merge(aqi_daily, fire_daily) ==
    LET fireOf(d) ==
          IF \E j \in DOMAIN fire_daily : fire_daily[j].date = d
          THEN fire_daily[CHOOSE j \in DOMAIN fire_daily : fire_daily[j].date = d].val
          ELSE 0
        joined == [i \in 1..Len(aqi_daily) |->
                     [date |-> aqi_daily[i].date,
                      aqi  |-> aqi_daily[i].val,
                      fire_intensity |-> fireOf(aqi_daily[i].date)]]
    IN OrderBy(joined, [i \in 1..Len(joined) |-> joined[i].date])

BuildSeries(fdf, adf) == Merge(GroupMean(adf), GroupMean(fdf))

\* ------------------------------------------------------------------
\* Forecast Driver (lambda_handler, lines 103-177)
\* ------------------------------------------------------------------
MinDays == 5

FireWeight == 5 * Q

ForecastDays == 3

\* variant: the first fire day (iloc[0]) instead of the last
FallbackAqiFirst(fdf) ==
    LET fire_daily == GroupMean(fdf)
        last_fire == IF fdf # <<>> THEN fire_daily[1].val ELSE 0
    IN [i \in 1..ForecastDays |-> FMul(last_fire, FireWeight)]

\* fallback forecast, lines 106-112
FallbackAqi(fdf) ==
    LET fire_daily == GroupMean(fdf)
        last_fire == IF fdf # <<>> THEN fire_daily[Len(fire_daily)].val ELSE 0
    IN [i \in 1..ForecastDays |-> FMul(last_fire, FireWeight)]

FallbackDates(fdf) ==
    LET fire_daily == GroupMean(fdf)
        last_date == IF fdf # <<>> THEN to_datetime(fire_daily[Len(fire_daily)].date)
                     ELSE Now
    IN [i \in 1..ForecastDays |-> DateOf(last_date + timedelta(i))]

\* training samples, lines 124-132
XAqi(d) == [i \in 1..(Len(d) - 1) |-> d[i].aqi]

XFire(d) == [i \in 1..(Len(d) - 1) |-> d[i].fire_intensity]

YNext(d) == [i \in 1..(Len(d) - 1) |-> d[i + 1].aqi]

\* scaling, training and unscaling, lines 136-152
MeanAqi(d) == Max(Q, Mean(XAqi(d)))

MeanFire(d) == Max(Q, Mean(XFire(d)))

Scaled(xs, m) == [i \in DOMAIN xs |-> FDiv(xs[i], m)]

TrainedW(d, picks) ==
    sgd_train(InitW, DefaultLr, Scaled(XAqi(d), MeanAqi(d)),
              Scaled(XFire(d), MeanFire(d)), Scaled(YNext(d), MeanAqi(d)), picks)

Unscale(ws, d) ==
    <<FMul(MeanAqi(d), ws[1]), ws[2], FMul(FDiv(MeanAqi(d), MeanFire(d)), ws[3])>>

RECURSIVE RolloutFromRaw(_, _, _, _)
\* variant: the unclamped value is fed forward
RolloutFromRaw(uw, current_aqi, future_fire, n) ==
    IF n = 0 THEN <<>>
    ELSE LET pred == uw[1] + FMul(uw[2], current_aqi) + FMul(uw[3], future_fire)
         IN <<Max(0, pred)>> \o RolloutFromRaw(uw, pred, future_fire, n - 1)

RECURSIVE RolloutFrom(_, _, _, _)
\* the loop of lines 170-177: n more days starting from current_aqi
RolloutFrom(uw, current_aqi, future_fire, n) ==
    IF n = 0 THEN <<>>
    ELSE LET pred == Max(0, uw[1] + FMul(uw[2], current_aqi) + FMul(uw[3], future_fire))
         IN <<pred>> \o RolloutFrom(uw, pred, future_fire, n - 1)

Rollout(uw, last_aqi, last_fire_intensity) ==
    RolloutFrom(uw, last_aqi, last_fire_intensity, ForecastDays)

RolloutDates(last_date) == [i \in 1..ForecastDays |-> DateOf(last_date + timedelta(i))]

\* ------------------------------------------------------------------
\* State
\* ------------------------------------------------------------------
VARIABLES
    fires,            \* table fires: rows [ts (acq_date at midnight), val (bright_ti4)]
    air_quality,      \* table air_quality: rows [ts (pollution_ts), val (pollution_aqius)]
    table_exists,     \* whether dv.air_quality_predictions has been created
    predictions,      \* committed rows of dv.air_quality_predictions, in commit order
    nextid,           \* the SERIAL sequence of the id column
    inv,              \* per invocation: its position and the handler's locals
    calls,            \* invocations and direct sink calls started so far
    hist,             \* per completed direct call of _insert_timeseries: its batch
                      \* and the table before and after its commit
    unit              \* the last direct call of a pure function: arguments and result

vars == <<fires, air_quality, table_exists, predictions, nextid, inv, calls, hist, unit>>

\* a local name that has not been assigned; an assigned one is <<value>>
Unbound == <<>>

\* a fresh frame: nothing connected, no local bound yet
Frame ==
    [pc |-> "idle", conn |-> "none", fire_df |-> <<>>, aqi_df |-> <<>>, df |-> <<>>,
     last_fire_date |-> Unbound, model_w |-> InitW, trained |-> FALSE, w |-> <<0, 0, 0>>,
     last_row |-> Unbound, forecast_dates |-> <<>>, forecast_aqi |-> <<>>,
     fire_event_time |-> 0, existing_dates |-> {}, pending |-> <<>>, k |-> 0,
     read_dates |-> {}, result |-> "none", err |-> "none", path |-> "none"]

NoUnit == [fn |-> "none"]

Ended(p) == inv[p].pc \in {"idle", "done", "failed", "returned"}

\* an exception leaves the handler: nothing after the raising line runs
Raise(p, kind) ==
    inv' = [inv EXCEPT ![p].pc = "failed", ![p].err = kind, ![p].result = "error"]

\* ------------------------------------------------------------------
\* lambda_handler
\* ------------------------------------------------------------------
\* the platform starts an invocation
Invoke(p) ==
    /\ Ended(p)
    /\ calls < MaxCalls
    /\ calls' = calls + 1
    /\ inv' = [inv EXCEPT ![p] = [Frame EXCEPT !.pc = "connect"]]
    /\ UNCHANGED <<fires, air_quality, table_exists, predictions, nextid, hist, unit>>

\* lines 52-59: psycopg2.connect, conn.cursor
Connect(p) ==
    /\ inv[p].pc = "connect"
    /\ \/ inv' = [inv EXCEPT ![p].pc = "read_fire", ![p].conn = "open"]
       \/ Raise(p, "StoreError")
    /\ UNCHANGED <<fires, air_quality, table_exists, predictions, nextid, calls, hist, unit>>

\* lines 62-68: fire_df = pd.read_sql(fire_query, conn)
ReadFire(p) ==
    /\ inv[p].pc = "read_fire"
    /\ \/ inv' = [inv EXCEPT ![p].pc = "read_aqi", ![p].fire_df = Query(fires)]
       \/ Raise(p, "StoreError")
    /\ UNCHANGED <<fires, air_quality, table_exists, predictions, nextid, calls, hist, unit>>

\* lines 71-77: aqi_df = pd.read_sql(aqi_query, conn)
ReadAqi(p) ==
    /\ inv[p].pc = "read_aqi"
    /\ \/ inv' = [inv EXCEPT ![p].pc = "build", ![p].aqi_df = Query(air_quality)]
       \/ Raise(p, "StoreError")
    /\ UNCHANGED <<fires, air_quality, table_exists, predictions, nextid, calls, hist, unit>>

\* lines 81-104: the merged daily series and the choice of path;
\* last_fire_date is assigned only when fire_df is not empty
Build(p) ==
    /\ inv[p].pc = "build"
    /\ LET f == inv[p].fire_df
           merged == BuildSeries(f, inv[p].aqi_df)
           fire_daily == GroupMean(f)
       IN inv' = [inv EXCEPT
                    ![p].df = merged,
                    ![p].last_fire_date =
                        IF f # <<>> THEN <<to_datetime(fire_daily[Len(fire_daily)].date)>>
                        ELSE Unbound,
                    ![p].pc = IF Len(merged) < MinDays THEN "fallback" ELSE "train"]
    /\ UNCHANGED <<fires, air_quality, table_exists, predictions, nextid, calls, hist, unit>>

\* lines 105-112: the fallback forecast
Fallback(p) ==
    /\ inv[p].pc = "fallback"
    /\ inv' = [inv EXCEPT
                 ![p].forecast_dates = FallbackDates(inv[p].fire_df),
                 ![p].forecast_aqi = FallbackAqi(inv[p].fire_df),
                 ![p].path = "fallback",
                 ![p].pc = "create_table"]
    /\ UNCHANGED <<fires, air_quality, table_exists, predictions, nextid, calls, hist, unit>>

\* lines 124-152: samples, scaling, SGD and unscaling of the weights
Train(p) ==
    /\ inv[p].pc = "train"
    /\ \E picks \in [1..TrainEpochs -> 1..(Len(inv[p].df) - 1)] :
         LET ws == TrainedW(inv[p].df, picks)
         IN inv' = [inv EXCEPT
                      ![p].model_w = ws,
                      ![p].trained = TRUE,
                      ![p].w = Unscale(ws, inv[p].df),
                      ![p].pc = "rollout"]
    /\ UNCHANGED <<fires, air_quality, table_exists, predictions, nextid, calls, hist, unit>>

\* lines 155-177: the seed row and the 3-day rollout.  Line 155 reads
\* last_fire_date (NameError when it was never assigned); line 156 takes
\* the last row of a possibly empty frame (IndexError).
RolloutStep(p) ==
    /\ inv[p].pc = "rollout"
    /\ LET d == inv[p].df
           lfd == inv[p].last_fire_date
       IN IF lfd = Unbound THEN Raise(p, "NameError")
          ELSE LET df_before_fire == SelectSeq(d, LAMBDA r : r.date <= DateOf(lfd[1]))
               IN IF df_before_fire = <<>> THEN Raise(p, "IndexError")
                  ELSE LET last_row == df_before_fire[Len(df_before_fire)]
                       IN inv' = [inv EXCEPT
                                    ![p].last_row = <<last_row>>,
                                    ![p].forecast_dates = RolloutDates(lfd[1]),
                                    ![p].forecast_aqi =
                                        Rollout(inv[p].w, last_row.aqi, last_row.fire_intensity),
                                    ![p].path = "trained",
                                    ![p].pc = "create_table"]
    /\ UNCHANGED <<fires, air_quality, table_exists, predictions, nextid, calls, hist, unit>>

\* variant: the commented-out DROP TABLE IF EXISTS of line 195 is executed
\* before the CREATE TABLE
CreateTableDrop(p) ==
    /\ inv[p].pc = "create_table"
    /\ \/ /\ table_exists' = TRUE
          /\ predictions' = <<>>
          /\ inv' = [inv EXCEPT
                       ![p].fire_event_time =
                           IF inv[p].fire_df # <<>>
                           THEN MaxOf({inv[p].fire_df[i].ts : i \in DOMAIN inv[p].fire_df})
                           ELSE Now,
                       ![p].pc = "select"]
       \/ /\ Raise(p, "StoreError")
          /\ UNCHANGED <<table_exists, predictions>>
    /\ UNCHANGED <<fires, air_quality, nextid, calls, hist, unit>>

\* lines 115-116 and 180-181 with _create_prediction_table (193-206):
\* CREATE TABLE IF NOT EXISTS, commit, then fire_event_time
CreateTable(p) ==
    /\ inv[p].pc = "create_table"
    /\ \/ /\ table_exists' = TRUE
          /\ inv' = [inv EXCEPT
                       ![p].fire_event_time =
                           IF inv[p].fire_df # <<>>
                           THEN MaxOf({inv[p].fire_df[i].ts : i \in DOMAIN inv[p].fire_df})
                           ELSE Now,
                       ![p].pc = "select"]
       \/ /\ Raise(p, "StoreError")
          /\ UNCHANGED table_exists
    /\ UNCHANGED <<fires, air_quality, predictions, nextid, calls, hist, unit>>

\* ------------------------------------------------------------------
\* _insert_timeseries
\* ------------------------------------------------------------------
\* zip(dates, aqi_values)
Zip(dates, aqi_values) ==
    [i \in 1..Min(Len(dates), Len(aqi_values)) |-> <<dates[i], aqi_values[i]>>]

DatesOf(rows) == {rows[i].prediction_date : i \in DOMAIN rows}

\* variant: the SELECT returns nothing
ExistingDatesNone(table, own) == {}

\* line 210: the dates the SELECT returns to this connection
ExistingDates(table, own) == DatesOf(table) \cup DatesOf(own)

\* variant: the inserted date is not remembered
AddSeenNot(existing, d) == existing

\* line 220: existing_dates.add(d)
AddSeen(existing, d) == existing \cup {d}

\* variant: a unique constraint with ON CONFLICT DO NOTHING
CommittedIgnoreConflict(table, own) ==
    table \o SelectSeq(own, LAMBDA r : r.prediction_date \notin DatesOf(table))

\* line 221: the table once conn.commit() has made the pending rows visible
Committed(table, own) == table \o own

\* lines 209-210: SELECT prediction_date ...; existing_dates = set(...)
InsertSelect(p) ==
    /\ inv[p].pc = "select"
    /\ \/ /\ table_exists
          /\ inv' = [inv EXCEPT
                       ![p].existing_dates = ExistingDates(predictions, inv[p].pending),
                       ![p].read_dates = ExistingDates(predictions, inv[p].pending),
                       ![p].k = 1,
                       ![p].pc = "insert"]
       \/ Raise(p, "StoreError")
    /\ UNCHANGED <<fires, air_quality, table_exists, predictions, nextid, calls, hist, unit>>

\* variant: the connection is in autocommit mode, every INSERT is visible
\* at once
InsertRowAutocommit(p) ==
    /\ inv[p].pc = "insert"
    /\ LET batch == Zip(inv[p].forecast_dates, inv[p].forecast_aqi)
           i == inv[p].k
       IN /\ i <= Len(batch)
          /\ IF batch[i][1] \notin inv[p].existing_dates
             THEN \/ /\ predictions' = Append(predictions,
                                      [id |-> nextid,
                                       prediction_date |-> batch[i][1],
                                       fire_event_timestamp |-> inv[p].fire_event_time,
                                       predicted_aqi |-> batch[i][2],
                                       created_at |-> Now])
                     /\ inv' = [inv EXCEPT
                                  ![p].existing_dates = AddSeen(@, batch[i][1]),
                                  ![p].k = i + 1]
                     /\ nextid' = nextid + 1
                  \/ /\ Raise(p, "StoreError")
                     /\ UNCHANGED <<nextid, predictions>>
             ELSE /\ inv' = [inv EXCEPT ![p].k = i + 1]
                  /\ UNCHANGED <<nextid, predictions>>
    /\ UNCHANGED <<fires, air_quality, table_exists, calls, hist, unit>>

\* lines 217-220: one iteration of the loop over zip(dates, aqi_values)
InsertRow(p) ==
    /\ inv[p].pc = "insert"
    /\ LET batch == Zip(inv[p].forecast_dates, inv[p].forecast_aqi)
           i == inv[p].k
       IN /\ i <= Len(batch)
          /\ IF batch[i][1] \notin inv[p].existing_dates
             THEN \/ /\ inv' = [inv EXCEPT
                                  ![p].pending = Append(@,
                                      [id |-> nextid,
                                       prediction_date |-> batch[i][1],
                                       fire_event_timestamp |-> inv[p].fire_event_time,
                                       predicted_aqi |-> batch[i][2],
                                       created_at |-> Now]),
                                  ![p].existing_dates = AddSeen(@, batch[i][1]),
                                  ![p].k = i + 1]
                     /\ nextid' = nextid + 1
                  \/ /\ Raise(p, "StoreError")
                     /\ UNCHANGED nextid
             ELSE /\ inv' = [inv EXCEPT ![p].k = i + 1]
                  /\ UNCHANGED nextid
    /\ UNCHANGED <<fires, air_quality, table_exists, predictions, calls, hist, unit>>

\* line 221: conn.commit() makes the pending rows visible; the call returns
\* to the handler, or to the caller of a direct call
InsertCommit(p) ==
    /\ inv[p].pc = "insert"
    /\ inv[p].k > Len(Zip(inv[p].forecast_dates, inv[p].forecast_aqi))
    /\ \/ /\ predictions' = Committed(predictions, inv[p].pending)
          /\ inv' = [inv EXCEPT
                       ![p].pending = <<>>,
                       ![p].pc = IF inv[p].path = "direct" THEN "returned" ELSE "close"]
          /\ hist' = IF inv[p].path = "direct"
                     THEN Append(hist,
                            [batch |-> Zip(inv[p].forecast_dates, inv[p].forecast_aqi),
                             before |-> predictions,
                             after |-> Committed(predictions, inv[p].pending)])
                     ELSE hist
       \/ /\ Raise(p, "StoreError")
          /\ UNCHANGED <<predictions, hist>>
    /\ UNCHANGED <<fires, air_quality, table_exists, nextid, calls, unit>>

\* lines 118-120 and 184-190: cursor.close(), conn.close(), return
Close(p) ==
    /\ inv[p].pc = "close"
    /\ inv' = [inv EXCEPT ![p].conn = "closed", ![p].result = inv[p].path, ![p].pc = "done"]
    /\ UNCHANGED <<fires, air_quality, table_exists, predictions, nextid, calls, hist, unit>>

Step(p) ==
    \/ Connect(p)
    \/ ReadFire(p)
    \/ ReadAqi(p)
    \/ Build(p)
    \/ Fallback(p)
    \/ Train(p)
    \/ RolloutStep(p)
    \/ CreateTable(p)
    \/ InsertSelect(p)
    \/ InsertRow(p)
    \/ InsertCommit(p)
    \/ Close(p)

\* ------------------------------------------------------------------
\* Inputs: the tables before the invocations
\* ------------------------------------------------------------------
\* one AQI reading per day; days 1..5 are 50, 55, 52, 60, 58
AqiOfDay(d) == IF d <= 5 THEN <<50, 55, 52, 60, 58>>[d] * Q ELSE (50 + ((3 * d) % 11)) * Q

FireBright == 10 * Q

\* a reading of every day of a..b (none when a > b)
DayRanges == {<<1, 0>>} \cup {r \in (1..MaxDay) \X (1..MaxDay) : r[1] <= r[2]}

AqiRanges == {r \in DayRanges : r[1] <= 2}

AqiTable(r) ==
    [i \in 1..(r[2] - r[1] + 1) |-> [ts |-> to_datetime(r[1] + i - 1) + 1, val |-> AqiOfDay(r[1] + i - 1)]]

\* the detections of day d: one of brightness 10, and after day 4 a second one
FireOfDay(d) ==
    IF d <= 4 THEN <<[ts |-> to_datetime(d), val |-> FireBright]>>
    ELSE <<[ts |-> to_datetime(d), val |-> FireBright + 2 * d * Q],
           [ts |-> to_datetime(d), val |-> FireBright]>>

RECURSIVE FireTable(_)
FireTable(r) ==
    IF r[1] > r[2] THEN <<>> ELSE FireOfDay(r[1]) \o FireTable(<<r[1] + 1, r[2]>>)

StoredRow(i, d, a) ==
    [id |-> i, prediction_date |-> d, fire_event_timestamp |-> to_datetime(1),
     predicted_aqi |-> a, created_at |-> 0]

\* the prediction table before the first invocation: absent, empty, or one row
InitStore ==
    \/ table_exists = FALSE /\ predictions = <<>> /\ nextid = 1
    \/ table_exists = TRUE /\ predictions = <<>> /\ nextid = 1
    \/ table_exists = TRUE /\ predictions = <<StoredRow(1, MaxDay, 40 * Q)>> /\ nextid = 2

InitFrames ==
    /\ inv = [p \in Procs |-> Frame]
    /\ calls = 0
    /\ hist = <<>>
    /\ unit = NoUnit

\* inputs <<AQI days, fire days>>: every pair with fewer than 5 AQI days, and
\* with 5 or more the cases of the rollout: no fire reading, fire on days 3
\* and 4, fire only before the first AQI day, fire up to the last day
ColdInputs == {x \in AqiRanges \X DayRanges : x[1][2] - x[1][1] + 1 < MinDays}

WarmInputs ==
    {<<<<1, 5>>, <<1, 0>>>>, <<<<1, 5>>, <<3, 4>>>>, <<<<2, MaxDay>>, <<1, 1>>>>,
     <<<<1, MaxDay>>, <<2, MaxDay>>>>}

Init ==
    /\ \E x \in ColdInputs \cup WarmInputs :
         /\ air_quality = AqiTable(x[1])
         /\ fires = FireTable(x[2])
    /\ InitStore
    /\ InitFrames

\* the slot that runs when invocations do not overlap
First == CHOOSE p \in Procs : \A q \in Procs : p <= q

\* invocations one after the other (periodic single-shot jobs)
Next ==
    \/ Invoke(First)
    \/ Step(First)

Spec == Init /\ [][Next]_vars

\* ------------------------------------------------------------------
\* Overlapping invocations: two scheduled runs at once
\* ------------------------------------------------------------------
\* a reading of 50 on every day of a..b: all training samples are equal, so
\* the weights do not depend on the samples SGD draws
FlatAqiTable(r) ==
    [i \in 1..(r[2] - r[1] + 1) |-> [ts |-> to_datetime(r[1] + i - 1) + 1, val |-> 50 * Q]]

InitOverlap ==
    /\ air_quality \in {AqiTable(<<1, 0>>), FlatAqiTable(<<1, 5>>)}
    /\ fires \in {FireTable(<<1, 0>>), FireTable(<<1, 4>>)}
    /\ InitStore
    /\ InitFrames

NextOverlap ==
    \E p \in Procs :
        \/ Invoke(p)
        \/ Step(p)

SpecOverlap == InitOverlap /\ [][NextOverlap]_vars

\* ------------------------------------------------------------------
\* Direct calls of _insert_timeseries with arbitrary batches
\* ------------------------------------------------------------------
BatchDates == 1..2

BatchValues == {40 * Q, 70 * Q}

SeqsUpTo(S, n) == UNION {[1..m -> S] : m \in 0..n}

\* _insert_timeseries(cursor, conn, dates, fire_event_time, aqi_values) on an
\* open connection
CallInsert(p) ==
    /\ Ended(p)
    /\ calls < MaxCalls
    /\ calls' = calls + 1
    /\ \E dates \in SeqsUpTo(BatchDates, MaxBatch), a \in BatchValues :
         inv' = [inv EXCEPT ![p] =
                    [Frame EXCEPT !.conn = "open", !.path = "direct",
                                  !.forecast_dates = dates,
                                  !.forecast_aqi = [i \in 1..Len(dates) |-> a],
                                  !.fire_event_time = to_datetime(2),
                                  !.pc = "select"]]
    /\ UNCHANGED <<fires, air_quality, table_exists, predictions, nextid, hist, unit>>

\* the prediction table before the calls: absent, empty, without and with a
\* duplicated date (overlapping invocations can leave one behind)
InitSink ==
    /\ fires = <<>>
    /\ air_quality = <<>>
    /\ \/ table_exists = FALSE /\ predictions = <<>> /\ nextid = 1
       \/ table_exists = TRUE /\ predictions = <<>> /\ nextid = 1
       \/ table_exists = TRUE /\ predictions = <<StoredRow(1, 2, 55 * Q)>> /\ nextid = 2
       \/ /\ table_exists = TRUE
          /\ predictions = <<StoredRow(1, 1, 55 * Q), StoredRow(2, 1, 55 * Q)>>
          /\ nextid = 3
    /\ InitFrames

\* calls one after the other
NextSink ==
    \/ CallInsert(First)
    \/ InsertSelect(First)
    \/ InsertRow(First)
    \/ InsertCommit(First)

SpecSink == InitSink /\ [][NextSink]_vars

\* ------------------------------------------------------------------
\* Direct calls of the Trend Model and of the rollout
\* ------------------------------------------------------------------
MaxEpochs == 2

WeightStates == {InitW, <<0 - Q, Q, 0>>, <<200, 0 - 300, 1500>>}

LearningRates == {DefaultLr, 10 * DefaultLr}

\* sample sets (x_aqi, x_fire, y_next) in scaled units: none, and two samples
SampleSets ==
    {[x_aqi |-> <<>>, x_fire |-> <<>>, y_next |-> <<>>],
     [x_aqi |-> <<900, 1100>>, x_fire |-> <<0, 2000>>, y_next |-> <<1100, 1000>>]}

\* model = SimpleLinearTimeModel(lr); model.w = w; model.sgd_train(..., epochs)
SgdTrainCall ==
    /\ calls < MaxCalls
    /\ calls' = calls + 1
    /\ \E w0 \in WeightStates, lr \in LearningRates, epochs \in 0..MaxEpochs, smp \in SampleSets :
         \E picks \in [1..epochs -> 1..Max(1, Len(smp.y_next))] :
            unit' = [fn |-> "sgd_train", w |-> w0, lr |-> lr, epochs |-> epochs,
                     n |-> Len(smp.y_next),
                     out |-> sgd_train(w0, lr, smp.x_aqi, smp.x_fire, smp.y_next, picks)]
    /\ UNCHANGED <<fires, air_quality, table_exists, predictions, nextid, inv, hist>>

InitTrain ==
    /\ air_quality \in {AqiTable(<<1, 0>>), AqiTable(<<1, 4>>), AqiTable(<<1, 5>>)}
    /\ fires \in {FireTable(<<1, 0>>), FireTable(<<3, 4>>)}
    /\ table_exists = TRUE /\ predictions = <<>> /\ nextid = 1
    /\ InitFrames

NextTrain ==
    \/ SgdTrainCall
    \/ Next

SpecTrain == InitTrain /\ [][NextTrain]_vars

\* unscaled weights and seeds of the rollout, negative ones included
RolloutWeights == {0 - 30 * Q, 0, 5 * Q} \X {0 - Q, Q \div 2, Q} \X {0 - 2 * Q, 0, 3 * Q}

RolloutSeeds == {0, 12 * Q, 60 * Q}

RolloutFires == {0, 10 * Q}

\* lines 158-177 on a given weight triple and seed row
RolloutCall ==
    /\ \E uw \in RolloutWeights, a \in RolloutSeeds, f \in RolloutFires :
         unit' = [fn |-> "rollout", w |-> uw, last_aqi |-> a, last_fire_intensity |-> f,
                  out |-> Rollout(uw, a, f)]
    /\ UNCHANGED <<fires, air_quality, table_exists, predictions, nextid, inv, calls, hist>>

InitRollout ==
    /\ fires = <<>>
    /\ air_quality = <<>>
    /\ table_exists = FALSE /\ predictions = <<>> /\ nextid = 1
    /\ InitFrames

NextRollout == RolloutCall

SpecRollout == InitRollout /\ [][NextRollout]_vars

\* ------------------------------------------------------------------
\* Feature Builder inputs: unordered tables, several readings per day
\* ------------------------------------------------------------------
MaxFireReadings == 2

\* the AQI read at a timestamp: 53, 56, 59, ... (one value per timestamp)
AqiAt(ts) == (50 + 3 * (ts - to_datetime(1) + 1)) * Q

AqiReadings == {[ts |-> t, val |-> AqiAt(t)] : t \in to_datetime(1)..(to_datetime(3) - 1)}

\* detections of brightness 10 or 25 on day 1 and of brightness 10 on day 3
FireReadings ==
    {[ts |-> to_datetime(1), val |-> 10 * Q], [ts |-> to_datetime(1), val |-> 25 * Q],
     [ts |-> to_datetime(3), val |-> 10 * Q]}

InitMerge ==
    /\ air_quality \in SeqsUpTo(AqiReadings, MaxReadings)
    /\ fires \in SeqsUpTo(FireReadings, MaxFireReadings)
    /\ table_exists = TRUE /\ predictions = <<>> /\ nextid = 1
    /\ InitFrames

NextMerge ==
    \/ Invoke(First)
    \/ Connect(First)
    \/ ReadFire(First)
    \/ ReadAqi(First)
    \/ Build(First)

SpecMerge == InitMerge /\ [][NextMerge]_vars

\* ------------------------------------------------------------------
\* Properties
\* ------------------------------------------------------------------
NoDupDates(rows) ==
    \A i, j \in DOMAIN rows : rows[i].prediction_date = rows[j].prediction_date => i = j

RowsOf(rows, d) == Cardinality({i \in DOMAIN rows : rows[i].prediction_date = d})

BatchDatesOf(batch) == {batch[i][1] : i \in DOMAIN batch}

ForecastDatesOf(p) == {inv[p].forecast_dates[i] : i \in DOMAIN inv[p].forecast_dates}

Consecutive(ds) == \A i \in 1..(Len(ds) - 1) : ds[i + 1] = ds[i] + 1

AfterBuild(p) == inv[p].path # "direct" /\ inv[p].pc \in {"fallback", "train", "rollout", "create_table", "select", "insert", "close", "done"}

AtSink(p) == inv[p].pc \in {"create_table", "select", "insert", "close", "done"}

\* C1: once the connection has been acquired it is closed when the
\* invocation ends, whether it returns or an error leaves the handler.
C1_ConnClosedOnEveryExit ==
    \A p \in Procs :
        (inv[p].pc \in {"done", "failed"} /\ inv[p].conn # "none") => inv[p].conn = "closed"

\* C2: with at least 5 merged rows the Forecast Driver raises no error of
\* its own and hands on exactly 3 forecast points with consecutive dates.
C2_TrainedPathCompletes ==
    \A p \in Procs :
        Len(inv[p].df) >= MinDays =>
            /\ inv[p].err \notin {"NameError", "IndexError"}
            /\ AtSink(p) =>
                 /\ Len(inv[p].forecast_dates) = 3
                 /\ Len(inv[p].forecast_aqi) = 3
                 /\ Consecutive(inv[p].forecast_dates)

\* C3: a second _insert_timeseries with the same batch, run right after the
\* first, leaves the table as the first left it, and (the table having had no
\* duplicate dates) every date of the batch is in exactly one row.
C3_SinkIdempotent ==
    \A i \in 1..(Len(hist) - 1) :
        (hist[i + 1].batch = hist[i].batch /\ hist[i + 1].before = hist[i].after) =>
            /\ hist[i + 1].after = hist[i].after
            /\ NoDupDates(hist[i].before) =>
                 \A d \in BatchDatesOf(hist[i].batch) : RowsOf(hist[i + 1].after, d) = 1

C3_Witness ==
    \E i \in 1..(Len(hist) - 1) :
        /\ hist[i + 1].batch = hist[i].batch
        /\ hist[i + 1].before = hist[i].after
        /\ NoDupDates(hist[i].before)
        /\ hist[i].before # <<>>
        /\ Len(hist[i].after) > Len(hist[i].before)

\* C4: from a table without duplicate dates, calls of the sink one after
\* the other never leave two rows with the same prediction_date, neither
\* among the committed rows nor together with the rows the running call has
\* inserted, and every date of every completed batch is in the table.
C4_NoDuplicateDates ==
    LET initial == IF hist = <<>> THEN predictions ELSE hist[1].before
    IN NoDupDates(initial) =>
         /\ NoDupDates(predictions)
         /\ \A p \in Procs :
              inv[p].pc # "failed" => NoDupDates(predictions \o inv[p].pending)
         /\ \A i \in DOMAIN hist : BatchDatesOf(hist[i].batch) \subseteq DatesOf(predictions)

C4_Witness ==
    /\ Len(hist) = 2
    /\ hist[1].before # <<>>
    /\ NoDupDates(hist[1].before)
    /\ \E i, j \in DOMAIN hist[1].batch : i # j /\ hist[1].batch[i][1] = hist[1].batch[j][1]
    /\ BatchDatesOf(hist[2].batch) \cap BatchDatesOf(hist[1].batch) # {}
    /\ BatchDatesOf(hist[2].batch) \cap DatesOf(hist[1].before) # {}
    /\ Len(hist[2].after) > Len(hist[2].before)

\* C5: when two overlapping invocations both forecast a date that neither
\* found in the table when it read the existing dates, both insert it: the
\* table holds two rows for that date after the second commit.
C5_BothInsert ==
    \A p, q \in Procs :
        (p # q /\ inv[p].pc \in {"close", "done"} /\ inv[q].pc \in {"close", "done"}) =>
            \A d \in ForecastDatesOf(p) \cap ForecastDatesOf(q) :
                (d \notin inv[p].read_dates /\ d \notin inv[q].read_dates) =>
                    RowsOf(predictions, d) >= 2

C5_Witness ==
    \E p, q \in Procs :
        /\ p # q
        /\ inv[p].pc = "done" /\ inv[q].pc = "done"
        /\ inv[p].path = "trained" /\ inv[q].path = "trained"
        /\ \E d \in ForecastDatesOf(p) \cap ForecastDatesOf(q) :
             /\ d \notin inv[p].read_dates /\ d \notin inv[q].read_dates
             /\ RowsOf(predictions, d) = 2

\* the last day of the fire series and the mean of that day's readings
LastFireDay(fdf) == MaxOf({DateOf(fdf[i].ts) : i \in DOMAIN fdf})

RECURSIVE SumVals(_, _)
SumVals(rows, I) ==
    IF I = {} THEN 0
    ELSE LET i == CHOOSE x \in I : TRUE IN rows[i].val + SumVals(rows, I \ {i})

DayMean(rows, d) ==
    LET I == {i \in DOMAIN rows : DateOf(rows[i].ts) = d}
    IN SumVals(rows, I) \div Cardinality(I)

\* C6: with fewer than 5 merged rows the Trend Model is not trained, the
\* invocation raises no error of its own and returns the fallback message;
\* with a last fire day D of mean intensity I the sink is handed the values
\* 5*I, 5*I, 5*I for the dates D+1, D+2, D+3.
C6_Fallback ==
    \A p \in Procs :
        (AfterBuild(p) \/ (inv[p].pc = "failed" /\ inv[p].path = "fallback"))
        /\ Len(inv[p].df) < MinDays =>
            /\ ~inv[p].trained
            /\ inv[p].pc \notin {"train", "rollout"}
            /\ inv[p].pc = "done" => inv[p].result = "fallback"
            /\ inv[p].pc = "failed" => inv[p].err = "StoreError"
            /\ (inv[p].pc # "fallback" /\ inv[p].fire_df # <<>>) =>
                 LET D == LastFireDay(inv[p].fire_df)
                     I == DayMean(inv[p].fire_df, D)
                 IN /\ inv[p].forecast_dates = <<D + 1, D + 2, D + 3>>
                    /\ inv[p].forecast_aqi = <<5 * I, 5 * I, 5 * I>>

C6_Witness ==
    \E p \in Procs :
        /\ inv[p].pc = "done"
        /\ inv[p].result = "fallback"
        /\ Len(inv[p].df) \in 1..(MinDays - 1)
        /\ Len(inv[p].fire_df) > 1
        /\ DayMean(inv[p].fire_df, LastFireDay(inv[p].fire_df)) # inv[p].fire_df[1].val
        /\ Len(inv[p].forecast_aqi) = 3

RawPred(uw, previous, future_fire) ==
    uw[1] + ((uw[2] * previous) \div Q) + ((uw[3] * future_fire) \div Q)

\* C7: each of the 3 stored predictions is max(0, w0 + w1*previous +
\* w2*future_fire), previous being the seed AQI on day 1 and the stored
\* prediction of the day before afterwards, future_fire the seed row's fire
\* intensity on all days; no stored prediction is negative, and a negative
\* raw prediction is stored as 0 and used as 0 on the next day.
C7_RolloutClamp ==
    unit.fn = "rollout" =>
        LET o == unit.out
            f == unit.last_fire_intensity
        IN /\ Len(o) = 3
           /\ o[1] = Max(0, RawPred(unit.w, unit.last_aqi, f))
           /\ o[2] = Max(0, RawPred(unit.w, o[1], f))
           /\ o[3] = Max(0, RawPred(unit.w, o[2], f))
           /\ \A i \in 1..3 : o[i] >= 0
           /\ RawPred(unit.w, unit.last_aqi, f) < 0 =>
                o[1] = 0 /\ o[2] = Max(0, RawPred(unit.w, 0, f))

C7_Witness ==
    /\ unit.fn = "rollout"
    /\ RawPred(unit.w, unit.last_aqi, unit.last_fire_intensity) < 0
    /\ unit.out[1] = 0
    /\ unit.out[2] > 0
    /\ unit.last_fire_intensity > 0

\* C8: in the scenario Jan1..Jan5 with fire on Jan3 and Jan4 the rollout is
\* seeded from the Jan4 row and the forecast is dated Jan6, Jan7, Jan8, each
\* value non-negative.
C8_ScenarioDates ==
    \A p \in Procs :
        (/\ air_quality = AqiTable(<<1, 5>>)
         /\ fires = FireTable(<<3, 4>>)
         /\ inv[p].path = "trained") =>
            /\ inv[p].last_row[1].date = 4
            /\ inv[p].forecast_dates = <<6, 7, 8>>
            /\ \A i \in DOMAIN inv[p].forecast_aqi : inv[p].forecast_aqi[i] >= 0

\* C9: sgd_train on an empty sample set leaves the three weights as they
\* were, whatever the weights, learning rate and step count; and the handler
\* reaches the training step only with at least 5 merged rows, so the sample
\* lists it averages and trains on are not empty.
C9_EmptyFitNoOp ==
    /\ (unit.fn = "sgd_train" /\ unit.n = 0) => unit.out = unit.w
    /\ \A p \in Procs :
         (inv[p].pc = "train" \/ inv[p].trained) =>
            /\ Len(inv[p].df) >= MinDays
            /\ Len(XAqi(inv[p].df)) >= 1
            /\ Len(XFire(inv[p].df)) >= 1
            /\ Len(YNext(inv[p].df)) >= 1

C9_Witness ==
    /\ unit.fn = "sgd_train"
    /\ unit.n = 0
    /\ unit.epochs > 0
    /\ unit.w # InitW
    /\ \E p \in Procs : inv[p].trained /\ inv[p].model_w # InitW

\* C10: the merged series has one row per distinct calendar date of the AQI
\* readings, ascending; aqi is the mean of the date's AQI readings and
\* fire_intensity the mean of the date's fire readings, or 0 when it has
\* none; a date with fire readings only has no row.
C10_MergedSeries ==
    \A p \in Procs :
        (AfterBuild(p) /\ inv[p].aqi_df # <<>>) =>
            LET d == inv[p].df
                a == inv[p].aqi_df
                f == inv[p].fire_df
                aqiDays == {DateOf(a[i].ts) : i \in DOMAIN a}
                fireDays == {DateOf(f[i].ts) : i \in DOMAIN f}
            IN /\ {d[i].date : i \in DOMAIN d} = aqiDays
               /\ Len(d) = Cardinality(aqiDays)
               /\ \A i \in 1..(Len(d) - 1) : d[i].date < d[i + 1].date
               /\ \A i \in DOMAIN d :
                    /\ d[i].aqi = DayMean(a, d[i].date)
                    /\ d[i].fire_intensity =
                         IF d[i].date \in fireDays THEN DayMean(f, d[i].date) ELSE 0

C10_Witness ==
    \E p \in Procs :
        /\ AfterBuild(p)
        /\ Len(inv[p].df) = 2
        /\ Len(inv[p].aqi_df) = 3
        /\ inv[p].df[1].fire_intensity > 0
        /\ inv[p].df[2].fire_intensity = 0
        /\ \E i \in DOMAIN inv[p].fire_df : DateOf(inv[p].fire_df[i].ts) = 3
        /\ \E i \in DOMAIN inv[p].df : inv[p].df[i].aqi \notin {inv[p].aqi_df[j].val : j \in DOMAIN inv[p].aqi_df}
        /\ air_quality # inv[p].aqi_df

\* C11: first write wins. No step of an invocation updates or deletes a
\* stored prediction row: every row of the table is still there, at the same
\* place and with the same prediction_date, fire_event_timestamp and
\* predicted_aqi, after the step, also when the invocation has computed a
\* different predicted_aqi for the row's date.
C11_FirstWriteWins ==
    [][\A i \in DOMAIN predictions :
          /\ i \in DOMAIN predictions'
          /\ predictions'[i] = predictions[i]]_vars

\* a second invocation has finished with a forecast that differs from the
\* row an earlier invocation stored for the same date
C11_Witness ==
    \E p \in Procs :
        /\ calls = 2
        /\ inv[p].pc = "done"
        /\ inv[p].path = "trained"
        /\ \E i \in DOMAIN inv[p].forecast_dates, j \in DOMAIN predictions :
              /\ predictions[j].prediction_date = inv[p].forecast_dates[i]
              /\ predictions[j].created_at = Now
              /\ predictions[j].predicted_aqi # inv[p].forecast_aqi[i]
              /\ RowsOf(predictions, inv[p].forecast_dates[i]) = 1

IdsOf(rows) == {rows[i].id : i \in DOMAIN rows}

\* the dates of the batch of p that its SELECT did not return
NotYetPresent(p) == ForecastDatesOf(p) \ inv[p].read_dates

\* C12: the rows of one batch become visible atomically. The table changes
\* only at the commit that ends _insert_timeseries, and that commit adds, in
\* one step, exactly one row for every date of the batch the SELECT had not
\* returned; a failing insert or commit ends the invocation as failed,
\* leaves the table as it was, and none of the rows the failed batch had
\* inserted is ever in the table.
C12_AtomicCommit ==
    [][/\ predictions' # predictions =>
            \E p \in Procs :
                /\ inv[p].pc = "insert"
                /\ inv'[p].pc \in {"close", "returned"}
                /\ inv[p].k > Len(Zip(inv[p].forecast_dates, inv[p].forecast_aqi))
                /\ predictions' = predictions \o inv[p].pending
                /\ DatesOf(inv[p].pending) = NotYetPresent(p)
                /\ Len(inv[p].pending) = Cardinality(NotYetPresent(p))
       /\ \A p \in Procs :
            (inv[p].pc = "insert" /\ inv'[p].pc = "failed") =>
                /\ inv'[p].result = "error"
                /\ inv'[p].err = "StoreError"
                /\ predictions' = predictions
       /\ \A p \in Procs :
            inv'[p].pc = "failed" =>
                IdsOf(inv'[p].pending) \cap IdsOf(predictions') = {}]_vars

\* one invocation has failed in the insert loop after inserting part of its
\* batch and none of its rows is in the table, while another has committed
\* a batch of three rows
C12_Witness ==
    \E p, q \in Procs :
        /\ inv[q].pc = "failed"
        /\ inv[q].err = "StoreError"
        /\ Len(inv[q].pending) >= 1
        /\ Len(inv[q].pending) < Cardinality(NotYetPresent(q))
        /\ IdsOf(inv[q].pending) \cap IdsOf(predictions) = {}
        /\ inv[p].pc = "done"
        /\ Cardinality(NotYetPresent(p)) = ForecastDays
        /\ ForecastDatesOf(p) \subseteq DatesOf(predictions)
        /\ Len(predictions) >= ForecastDays

====
